---- MODULE Spec2Model ----
(***************************************************************************)
(* Model of stt.py, a batch speech-to-text command-line front end.         *)
(*                                                                         *)
(* Strings are sequences of one-character strings, paths are sequences of  *)
(* path components (pathlib's "parts"), the filesystem is a function from  *)
(* the absolute paths of regular files to their contents plus a fixed set  *)
(* of directories.  Times are counted in ticks of 1/2^FracBits second,     *)
(* which are doubles on which every float operation of the program is      *)
(* exact; for times of whole milliseconds, which are not, format_timestamp *)
(* is also computed in binary64 arithmetic, bit by bit.                    *)
(*                                                                         *)
(* Spec is a run of main, SpecFair the same run under weak fairness of its *)
(* steps; SpecFormat applies format_output and SpecTimestamp applies       *)
(* format_timestamp to bounded inputs.                                     *)
(*                                                                         *)
(* The collaborator is nondeterministic: from_pretrained returns a handle  *)
(* or raises, model.transcribe returns a result or raises an Exception.    *)
(* Path.write_text is taken to succeed, no other process touches the       *)
(* filesystem, and there are no symbolic links.                            *)
(***************************************************************************)
EXTENDS Integers, Sequences, FiniteSets, TLC

(***************************************************************************)
(* Bounds of the model.                                                    *)
(***************************************************************************)
MaxPatterns == 2
MaxSentences == 2
FracBits == 3

(***************************************************************************)
(* Characters and strings.                                                 *)
(***************************************************************************)
\* The printable ASCII characters in code-point order, 32 .. 126 (code 96, the
\* grave accent, is written "<grave>").
Printable ==
    << " ", "!", "\"", "#", "$", "%", "&", "'", "(", ")", "*", "+", ",", "-", ".", "/",
       "0", "1", "2", "3", "4", "5", "6", "7", "8", "9", ":", ";", "<", "=", ">", "?",
       "@", "A", "B", "C", "D", "E", "F", "G", "H", "I", "J", "K", "L", "M", "N", "O",
       "P", "Q", "R", "S", "T", "U", "V", "W", "X", "Y", "Z", "[", "\\", "]", "^", "_",
       "<grave>", "a", "b", "c", "d", "e", "f", "g", "h", "i", "j", "k", "l", "m", "n", "o",
       "p", "q", "r", "s", "t", "u", "v", "w", "x", "y", "z", "{", "|", "}", "~" >>

NL == "\n"

\* ord(c): the code point of a character.
Ord(c) ==
    IF c = NL THEN 10
    ELSE 31 + (CHOOSE i \in 1..Len(Printable) : Printable[i] = c)

\* s < t for Python str: lexicographic by code point.
RECURSIVE StrLess(_, _)
StrLess(s, t) ==
    IF t = <<>> THEN FALSE
    ELSE IF s = <<>> THEN TRUE
    ELSE IF Head(s) # Head(t) THEN Ord(Head(s)) < Ord(Head(t))
    ELSE StrLess(Tail(s), Tail(t))

Digits == << "0", "1", "2", "3", "4", "5", "6", "7", "8", "9" >>

\* str(n) for an int n >= 0.
RECURSIVE str(_)
str(n) ==
    IF n < 10 THEN << Digits[n + 1] >>
    ELSE str(n \div 10) \o << Digits[(n % 10) + 1] >>

\* f"{n:0{w}d}" for an int n >= 0: zero-padded on the left to at least w digits.
RECURSIVE zfill(_, _)
zfill(s, w) == IF Len(s) >= w THEN s ELSE zfill(<< "0" >> \o s, w)

\* sep.join(lines)
RECURSIVE join(_, _)
join(sep, lines) ==
    IF lines = <<>> THEN <<>>
    ELSE IF Len(lines) = 1 THEN lines[1]
    ELSE lines[1] \o sep \o join(sep, Tail(lines))

\* s.rfind(c): the last (1-based) index of c in s, 0 when absent.
RECURSIVE rfind(_, _)
rfind(s, c) ==
    IF s = <<>> THEN 0
    ELSE IF s[Len(s)] = c THEN Len(s)
    ELSE rfind(SubSeq(s, 1, Len(s) - 1), c)

(***************************************************************************)
(* Paths (pathlib.Path as used by the program).                            *)
(***************************************************************************)
Root == << "/" >>

is_absolute(p) == p # <<>> /\ p[1] = Root

\* Path.name, Path.parent, Path.suffix, Path.stem
name(p) == IF p = <<>> \/ p = << Root >> THEN <<>> ELSE p[Len(p)]

parent(p) == IF p = <<>> \/ p = << Root >> THEN p ELSE SubSeq(p, 1, Len(p) - 1)

suffix(p) ==
    LET n == name(p)
        i == rfind(n, ".")
    IN  IF 1 < i /\ i < Len(n) THEN SubSeq(n, i, Len(n)) ELSE <<>>

stem(p) ==
    LET n == name(p)
        i == rfind(n, ".")
    IN  IF 1 < i /\ i < Len(n) THEN SubSeq(n, 1, i - 1) ELSE n

\* str(path): the components joined by "/".
path_str(p) ==
    IF p = <<>> THEN << "." >>
    ELSE IF is_absolute(p) THEN Root \o join(<< "/" >>, Tail(p))
    ELSE join(<< "/" >>, p)

(***************************************************************************)
(* The filesystem.                                                         *)
(***************************************************************************)
S_w == << "w" >>
S_out == << "o", "u", "t" >>
S_a_mp3 == << "a", ".", "m", "p", "3" >>
S_b_mp3 == << "b", ".", "m", "p", "3" >>
S_a_txt == << "a", ".", "t", "x", "t" >>

\* The working directory of the process and the directories that exist.
Cwd == << Root, S_w >>
OutDir == << Root, S_w, S_out >>
Dirs == { << Root >>, Cwd, OutDir }

\* Path.resolve(): the absolute form of a path (no symlinks, no "..").
resolve(p) == IF is_absolute(p) THEN p ELSE Cwd \o p

\* Path.exists(), Path.is_dir() on the filesystem with regular files F.
exists(F, p) == resolve(p) \in (DOMAIN F) \cup Dirs

is_dir(F, p) == resolve(p) \in Dirs

\* os.listdir(d): the names of the entries of directory d.
listdir(F, d) ==
    IF ~is_dir(F, d) THEN {}
    ELSE { name(q) : q \in { q \in (DOMAIN F) \cup Dirs :
                               q # << Root >> /\ parent(q) = resolve(d) } }

(***************************************************************************)
(* PathResolver: expand_paths, get_unique_output_path, get_output_path.    *)
(***************************************************************************)
\* any(c in pattern for c in "*?[")
has_magic(pattern) ==
    \E k \in 1..Len(pattern) : \E j \in 1..Len(pattern[k]) :
        pattern[k][j] \in { "*", "?", "[" }

\* The index of the "]" closing the character class opened just before pat[j]
\* (fnmatch: a leading "!" and a "]" right after it do not close the class);
\* 0 when the class is never closed.
RECURSIVE class_end(_, _)
class_end(pat, j) ==
    IF j > Len(pat) THEN 0
    ELSE IF pat[j] = "]" THEN j
    ELSE class_end(pat, j + 1)

\* Whether character c is in the class body `stuff` (members and lo-hi ranges).
RECURSIVE in_class(_, _)
in_class(c, stuff) ==
    IF stuff = <<>> THEN FALSE
    ELSE IF Len(stuff) >= 3 /\ stuff[2] = "-"
         THEN \/ (Ord(stuff[1]) <= Ord(c) /\ Ord(c) <= Ord(stuff[3]))
              \/ in_class(c, SubSeq(stuff, 4, Len(stuff)))
    ELSE c = stuff[1] \/ in_class(c, Tail(stuff))

\* fnmatch.fnmatchcase(n, pat): "*" any run, "?" one character, "[...]" a class.
RECURSIVE fnmatch(_, _)
fnmatch(n, pat) ==
    IF pat = <<>> THEN n = <<>>
    ELSE IF Head(pat) = "*"
         THEN fnmatch(n, Tail(pat)) \/ (n # <<>> /\ fnmatch(Tail(n), pat))
    ELSE IF Head(pat) = "?"
         THEN n # <<>> /\ fnmatch(Tail(n), Tail(pat))
    ELSE IF Head(pat) = "["
         THEN LET neg == Len(pat) >= 2 /\ pat[2] = "!"
                  first == IF neg THEN 3 ELSE 2
                  close == class_end(pat, first + 1)
              IN  IF close = 0
                  THEN n # <<>> /\ Head(n) = "[" /\ fnmatch(Tail(n), Tail(pat))
                  ELSE /\ n # <<>>
                       /\ in_class(Head(n), SubSeq(pat, first, close - 1)) # neg
                       /\ fnmatch(Tail(n), SubSeq(pat, close + 1, Len(pat)))
    ELSE n # <<>> /\ Head(n) = Head(pat) /\ fnmatch(Tail(n), Tail(pat))

\* glob.glob below `base` for the remaining pattern components `rest`: a
\* component with a wildcard matches the directory's entries (hidden entries
\* only when the component itself starts with a dot), a literal one is kept and
\* must exist in the end.
RECURSIVE glob_from(_, _, _)
glob_from(F, base, rest) ==
    IF rest = <<>> THEN (IF exists(F, base) THEN { base } ELSE {})
    ELSE LET c == Head(rest) IN
         IF has_magic(<< c >>)
         THEN UNION { glob_from(F, Append(base, n), Tail(rest)) :
                        n \in { n \in listdir(F, base) :
                                  /\ fnmatch(n, c)
                                  /\ (Head(n) = "." => Head(c) = ".") } }
         ELSE glob_from(F, Append(base, c), Tail(rest))

glob(F, pattern) ==
    IF is_absolute(pattern) THEN glob_from(F, << Root >>, Tail(pattern))
    ELSE glob_from(F, <<>>, pattern)

\* sorted(expanded): the paths in increasing order of their string form.
RECURSIVE sorted(_)
sorted(S) ==
    IF S = {} THEN <<>>
    ELSE LET least == CHOOSE p \in S :
                        \A q \in S \ { p } : StrLess(path_str(p), path_str(q))
         IN  << least >> \o sorted(S \ { least })

\* [f(x) for x in seq]
RECURSIVE resolve_all(_)
resolve_all(seq) ==
    IF seq = <<>> THEN <<>> ELSE << resolve(Head(seq)) >> \o resolve_all(Tail(seq))

\* Mutant: a literal pattern that does not exist is dropped.
RECURSIVE expand_paths_existing_only(_, _)
expand_paths_existing_only(F, patterns) ==
    IF patterns = <<>> THEN <<>>
    ELSE LET pattern == Head(patterns) IN
         (IF has_magic(pattern)
          THEN resolve_all(sorted(glob(F, pattern)))
          ELSE IF exists(F, pattern) THEN << resolve(pattern) >> ELSE <<>>)
         \o expand_paths_existing_only(F, Tail(patterns))

RECURSIVE expand_paths(_, _)
expand_paths(F, patterns) ==
    IF patterns = <<>> THEN <<>>
    ELSE LET pattern == Head(patterns) IN
         (IF has_magic(pattern)
          THEN resolve_all(sorted(glob(F, pattern)))
          ELSE << resolve(pattern) >>)
         \o expand_paths(F, Tail(patterns))

\* The while loop of get_unique_output_path, entered with `counter`.
RECURSIVE unique_from(_, _, _)
unique_from(F, base_path, counter) ==
    LET new_path == Append(parent(base_path),
                           stem(base_path) \o << "-" >> \o str(counter)
                               \o suffix(base_path))
    IN  IF ~exists(F, new_path) THEN new_path
        ELSE unique_from(F, base_path, counter + 1)

\* Mutant: the counter of the search starts at 0 instead of 1.
get_unique_output_path_from0(F, base_path) ==
    IF ~exists(F, base_path) THEN base_path
    ELSE unique_from(F, base_path, 0)

\* Mutant: the existence check is dropped and the candidate returned as it is.
get_unique_output_path_unchecked(F, base_path) == base_path

get_unique_output_path(F, base_path) ==
    IF ~exists(F, base_path) THEN base_path
    ELSE unique_from(F, base_path, 1)

\* The choices of -f/--format.
Formats == { "txt", "srt", "vtt", "json" }

EXTENSION_MAP ==
    [ f \in Formats |->
        CASE f = "txt" -> << ".", "t", "x", "t" >>
          [] f = "srt" -> << ".", "s", "r", "t" >>
          [] f = "vtt" -> << ".", "v", "t", "t" >>
          [] f = "json" -> << ".", "j", "s", "o", "n" >> ]

\* args.output: None when -o is not given (given = FALSE), else a path string.
NoOutput == [ given |-> FALSE, path |-> <<>> ]

\* `if output:` is false for None and for the empty string.
truthy(output) == output.given /\ output.path # <<>>

\* Mutant: an override that is no directory gets the format's extension.
output_candidate_with_ext(F, input_path, output, fmt) ==
    LET ext == IF fmt \in DOMAIN EXTENSION_MAP THEN EXTENSION_MAP[fmt]
               ELSE << ".", "t", "x", "t" >>
    IN  IF truthy(output)
        THEN IF is_dir(F, output.path)
             THEN Append(output.path, stem(input_path) \o ext)
             ELSE Append(parent(output.path), stem(output.path) \o ext)
        ELSE Append(parent(input_path), stem(input_path) \o ext)

\* The candidate path of get_output_path, before it is made unique.
output_candidate(F, input_path, output, fmt) ==
    LET ext == IF fmt \in DOMAIN EXTENSION_MAP THEN EXTENSION_MAP[fmt]
               ELSE << ".", "t", "x", "t" >>
    IN  IF truthy(output)
        THEN IF is_dir(F, output.path)
             THEN Append(output.path, stem(input_path) \o ext)
             ELSE output.path
        ELSE Append(parent(input_path), stem(input_path) \o ext)

get_output_path(F, input_path, output, fmt) ==
    get_unique_output_path(F, output_candidate(F, input_path, output, fmt))

(***************************************************************************)
(* TranscriptFormatter: format_timestamp, format_output.                   *)
(***************************************************************************)
\* A time of k ticks is the float k / TicksPerSecond seconds.
TicksPerSecond == 2 ^ FracBits

fmt2(n) == zfill(str(n), 2)

fmt3(n) == zfill(str(n), 3)

format_timestamp(seconds, fmt) ==
    LET hours == seconds \div (3600 * TicksPerSecond)
        minutes == (seconds % (3600 * TicksPerSecond)) \div (60 * TicksPerSecond)
        secs == (seconds % (60 * TicksPerSecond)) \div TicksPerSecond
        millis == ((seconds % TicksPerSecond) * 1000) \div TicksPerSecond
    IN  IF fmt = "srt"
        THEN fmt2(hours) \o << ":" >> \o fmt2(minutes) \o << ":" >> \o fmt2(secs)
                 \o << "," >> \o fmt3(millis)
        ELSE fmt2(hours) \o << ":" >> \o fmt2(minutes) \o << ":" >> \o fmt2(secs)
                 \o << "." >> \o fmt3(millis)

(***************************************************************************)
(* format_timestamp on any float.  A float (IEEE 754 binary64) is the      *)
(* record [ whole, frac ] of its integer part and the bits of its          *)
(* fractional part, most significant first: an exact value of at most      *)
(* Precision significant bits.                                             *)
(***************************************************************************)
\* The significand of a float, in bits.
Precision == 53

RECURSIVE bit_length(_)
bit_length(n) == IF n = 0 THEN 0 ELSE 1 + bit_length(n \div 2)

\* The number of leading 0 bits of a fraction.
RECURSIVE leading_zeros(_)
leading_zeros(bits) ==
    IF bits = <<>> \/ Head(bits) = 1 THEN 0 ELSE 1 + leading_zeros(Tail(bits))

\* The integer the bits spell, and the n bits that spell the integer v.
RECURSIVE to_int(_)
to_int(bits) ==
    IF bits = <<>> THEN 0
    ELSE 2 * to_int(SubSeq(bits, 1, Len(bits) - 1)) + bits[Len(bits)]

to_bits(v, n) == [ k \in 1..n |-> (v \div (2 ^ (n - k))) % 2 ]

\* The arithmetic below works on LimbBits bits at a time.
LimbBits == 16

\* The first n bits of the binary expansion of num / den, for num < den, and
\* the numerator that is left: long division.
RECURSIVE div_bits(_, _, _)
div_bits(num, den, n) ==
    IF n = 0 THEN [ bits |-> <<>>, rem |-> num ]
    ELSE LET k == IF n < LimbBits THEN n ELSE LimbBits
             v == num * (2 ^ k)
             rest == div_bits(v % den, den, n - k)
         IN  [ bits |-> to_bits(v \div den, k) \o rest.bits, rem |-> rest.rem ]

\* The fraction times the integer m plus carry units in its last place, with
\* the carry out of it: long multiplication.
RECURSIVE mul_add(_, _, _)
mul_add(bits, m, carry) ==
    IF bits = <<>> THEN [ carry |-> carry, bits |-> <<>> ]
    ELSE LET k == IF Len(bits) < LimbBits THEN Len(bits) ELSE LimbBits
             v == to_int(SubSeq(bits, Len(bits) - k + 1, Len(bits))) * m + carry
             rest == mul_add(SubSeq(bits, 1, Len(bits) - k), m, v \div (2 ^ k))
         IN  [ carry |-> rest.carry, bits |-> rest.bits \o to_bits(v % (2 ^ k), k) ]

\* The float nearest to whole + 0.bits (+ a nonzero rest below the last bit
\* when sticky), ties to the even significand.
round_float(whole, bits, sticky) ==
    LET keep == IF whole > 0 THEN Precision - bit_length(whole)
                ELSE Precision + leading_zeros(bits)
    IN  IF Len(bits) <= keep THEN [ whole |-> whole, frac |-> bits ]
        ELSE LET kept == SubSeq(bits, 1, keep)
                 guard == bits[keep + 1]
                 rest == sticky \/ \E k \in (keep + 2)..Len(bits) : bits[k] = 1
                 odd == IF keep = 0 THEN whole % 2 = 1 ELSE kept[keep] = 1
                 up == mul_add(kept, 1, 1)
             IN  IF guard = 1 /\ (rest \/ odd)
                 THEN [ whole |-> whole + up.carry, frac |-> up.bits ]
                 ELSE [ whole |-> whole, frac |-> kept ]

\* The float that stands for t milliseconds: the one nearest to t / 1000.
float_of_millis(t) ==
    LET whole == t \div 1000
        lead == div_bits(t % 1000, 1000, 10)
        n == (IF whole > 0 THEN Precision - bit_length(whole)
              ELSE Precision + leading_zeros(lead.bits)) + 1
        q == div_bits(t % 1000, 1000, n)
    IN  IF t % 1000 = 0 THEN [ whole |-> whole, frac |-> <<>> ]
        ELSE round_float(whole, q.bits, q.rem # 0)

\* x * m in float arithmetic, for a float x below 1.
float_times(x, m) ==
    LET product == mul_add(x.frac, m, 0)
    IN  round_float(product.carry, product.bits, FALSE)

\* format_timestamp(seconds, fmt) for the float seconds.
format_timestamp_float(seconds, fmt) ==
    LET hours == seconds.whole \div 3600
        minutes == (seconds.whole % 3600) \div 60
        secs == seconds.whole % 60
        millis == float_times([ whole |-> 0, frac |-> seconds.frac ], 1000).whole
    IN  IF fmt = "srt"
        THEN fmt2(hours) \o << ":" >> \o fmt2(minutes) \o << ":" >> \o fmt2(secs)
                 \o << "," >> \o fmt3(millis)
        ELSE fmt2(hours) \o << ":" >> \o fmt2(minutes) \o << ":" >> \o fmt2(secs)
                 \o << "." >> \o fmt3(millis)

\* s with its trailing "0" characters removed.
RECURSIVE rstrip0(_)
rstrip0(s) ==
    IF s # <<>> /\ s[Len(s)] = "0" THEN rstrip0(SubSeq(s, 1, Len(s) - 1)) ELSE s

\* repr(x) of the float x = k / TicksPerSecond, as json.dumps writes it: the
\* integer part, a point and the exact decimal fraction (at least one digit).
float_repr(k) ==
    LET frac == rstrip0(zfill(str((k % TicksPerSecond) * (5 ^ FracBits)), FracBits))
    IN  str(k \div TicksPerSecond) \o << "." >>
            \o (IF frac = <<>> THEN << "0" >> ELSE frac)

\* json.dumps(s, ensure_ascii=False) of a str: quoted, with the quote, the
\* backslash and the newline escaped.
RECURSIVE json_escape(_)
json_escape(s) ==
    IF s = <<>> THEN <<>>
    ELSE (CASE Head(s) = "\"" -> << "\\", "\"" >>
            [] Head(s) = "\\" -> << "\\", "\\" >>
            [] Head(s) = NL -> << "\\", "n" >>
            [] OTHER -> << Head(s) >>)
         \o json_escape(Tail(s))

json_str(s) == << "\"" >> \o json_escape(s) \o << "\"" >>

\* The lines of one sentence object at indent 4, `last` telling whether a
\* comma follows it.
json_sentence(s, last) ==
    << << " ", " ", " ", " ", "{" >>,
       << " ", " ", " ", " ", " ", " ", "\"", "t", "e", "x", "t", "\"", ":", " " >> \o json_str(s.text) \o << "," >>,
       << " ", " ", " ", " ", " ", " ", "\"", "s", "t", "a", "r", "t", "\"", ":", " " >> \o float_repr(s.start) \o << "," >>,
       << " ", " ", " ", " ", " ", " ", "\"", "e", "n", "d", "\"", ":", " " >> \o float_repr(s.end),
       IF last THEN << " ", " ", " ", " ", "}" >> ELSE << " ", " ", " ", " ", "}", "," >> >>

RECURSIVE json_sentences(_)
json_sentences(sentences) ==
    IF sentences = <<>> THEN <<>>
    ELSE json_sentence(Head(sentences), Len(sentences) = 1)
             \o json_sentences(Tail(sentences))

\* json.dumps({"text": ..., "sentences": [...]}, indent=2, ensure_ascii=False)
json_dumps(result) ==
    join(<< NL >>,
         << << "{" >>,
            << " ", " ", "\"", "t", "e", "x", "t", "\"", ":", " " >> \o json_str(result.text) \o << "," >> >>
         \o (IF result.sentences = <<>>
             THEN << << " ", " ", "\"", "s", "e", "n", "t", "e", "n", "c", "e", "s", "\"", ":", " ", "[", "]" >> >>
             ELSE << << " ", " ", "\"", "s", "e", "n", "t", "e", "n", "c", "e", "s", "\"", ":", " ", "[" >> >> \o json_sentences(result.sentences)
                      \o << << " ", " ", "]" >> >>)
         \o << << "}" >> >>)

\* The four lines.append calls of the loop body, for sentence number i.
RECURSIVE cue_lines(_, _, _)
cue_lines(sentences, i, fmt) ==
    IF sentences = <<>> THEN <<>>
    ELSE LET sentence == Head(sentences)
             start == format_timestamp(sentence.start, fmt)
             end == format_timestamp(sentence.end, fmt)
         IN  << str(i),
                start \o << " ", "-", "-", ">", " " >> \o end,
                sentence.text,
                <<>> >>
             \o cue_lines(Tail(sentences), i + 1, fmt)

\* Mutant: enumerate(result.sentences) without its start argument, counting from 0.
format_output_from0(result, fmt) ==
    IF fmt = "txt" THEN result.text
    ELSE IF fmt = "json" THEN json_dumps(result)
    ELSE IF fmt \in { "srt", "vtt" }
         THEN LET lines == (IF fmt = "vtt" THEN << << "W", "E", "B", "V", "T", "T", NL >> >> ELSE <<>>)
                               \o cue_lines(result.sentences, 0, fmt)
              IN  join(<< NL >>, lines)
    ELSE result.text

\* Mutant: the vtt branch formats its timestamps in the srt style.
format_output_srt_style(result, fmt) ==
    IF fmt = "txt" THEN result.text
    ELSE IF fmt = "json" THEN json_dumps(result)
    ELSE IF fmt \in { "srt", "vtt" }
         THEN LET lines == (IF fmt = "vtt" THEN << << "W", "E", "B", "V", "T", "T", NL >> >> ELSE <<>>)
                               \o cue_lines(result.sentences, 1, "srt")
              IN  join(<< NL >>, lines)
    ELSE result.text

format_output(result, fmt) ==
    IF fmt = "txt" THEN result.text
    ELSE IF fmt = "json" THEN json_dumps(result)
    ELSE IF fmt \in { "srt", "vtt" }
         THEN LET lines == (IF fmt = "vtt" THEN << << "W", "E", "B", "V", "T", "T", NL >> >> ELSE <<>>)
                               \o cue_lines(result.sentences, 1, fmt)
              IN  join(<< NL >>, lines)
    ELSE result.text

(***************************************************************************)
(* The inputs of a run: command line, filesystem, collaborator.            *)
(***************************************************************************)
\* The input patterns a command line is built from: two globs and a literal
\* below a subdirectory.
Patterns ==
    { << << "*", ".", "m", "p", "3" >> >>,
      << << "a", ".", "*" >> >>,
      << S_out, S_a_txt >> }

\* args.input: nargs="+", one or more patterns.
RECURSIVE SeqsUpTo(_, _)
SeqsUpTo(S, n) ==
    IF n = 0 THEN { <<>> }
    ELSE LET shorter == SeqsUpTo(S, n - 1)
         IN  shorter \cup { Append(q, x) : q \in shorter, x \in S }

InputLists == SeqsUpTo(Patterns, MaxPatterns) \ { <<>> }

\* args.output: absent, the empty string, a directory, a file path.
Outputs ==
    { NoOutput,
      [ given |-> TRUE, path |-> <<>> ],
      [ given |-> TRUE, path |-> << S_out >> ],
      [ given |-> TRUE, path |-> << S_a_txt >> ] }

\* args.format of the runs explored (format_output is explored on every
\* format by the formatter specification).
RunFormats == { "txt", "srt" }

\* The regular files that may exist when the run starts.
FileUniverse ==
    { Cwd \o << S_a_mp3 >>, Cwd \o << S_b_mp3 >>, Cwd \o << S_a_txt >>,
      OutDir \o << S_a_txt >> }

OldContent == << "#" >>

\* What model.transcribe returns when it does not raise.
Hello == [ text |-> << "H", "e", "l", "l", "o" >>, start |-> 0, end |-> (3 * TicksPerSecond) \div 2 ]

World ==
    [ text |-> << "W", "o", "r", "l", "d" >>, start |-> (3 * TicksPerSecond) \div 2,
      end |-> 3 * TicksPerSecond ]

HelloWorld == [ text |-> << "H", "e", "l", "l", "o", " ", "W", "o", "r", "l", "d" >>, sentences |-> << Hello, World >> ]

Results == { HelloWorld }

\* The handles from_pretrained may return, and the exception a call may raise.
Handles == { "h1", "h2" }

MODEL_ID == "mlx-community/parakeet-tdt-0.6b-v3"

(***************************************************************************)
(* State.                                                                  *)
(***************************************************************************)
VARIABLES
    args,         \* the parsed command line: input, output, format, quiet
    fs,           \* the regular files: absolute path -> content
    pc,           \* where main is
    input_paths,  \* main's input_paths
    idx,          \* 1-based position of the for loop in input_paths
    base_path,    \* the candidate handed to get_unique_output_path
    output_path,  \* main's output_path
    success,      \* main's success
    model,        \* main's model: "none" until from_pretrained returns
    exit_code,    \* the status passed to sys.exit, -1 while running
    loads,        \* number of from_pretrained calls so far
    calls,        \* the model.transcribe calls so far, in order
    written,      \* the write_text calls so far, in order
    stdout,       \* lines printed to sys.stdout
    stderr,       \* lines printed to sys.stderr
    fs0,          \* the filesystem when the run started
    f_in,         \* the formatter's arguments (formatter specifications)
    f_out         \* the formatter's return value, << >> before the call

vars ==
    << args, fs, pc, input_paths, idx, base_path, output_path, success, model,
       exit_code, loads, calls, written, stdout, stderr, fs0, f_in, f_out >>

run_vars ==
    << args, fs, pc, input_paths, idx, base_path, output_path, success, model,
       exit_code, loads, calls, written, stdout, stderr, fs0 >>

NoCall == [ result |-> [ text |-> <<>>, sentences |-> <<>> ], fmt |-> "txt" ]

InitRun ==
    /\ args \in [ input : InputLists, output : Outputs, format : RunFormats,
                  quiet : BOOLEAN ]
    /\ fs \in UNION { [ S -> { OldContent } ] : S \in SUBSET FileUniverse }
    /\ fs0 = fs
    /\ pc = "start"
    /\ input_paths = <<>>
    /\ idx = 0
    /\ base_path = <<>>
    /\ output_path = <<>>
    /\ success = TRUE
    /\ model = "none"
    /\ exit_code = -1
    /\ loads = 0
    /\ calls = <<>>
    /\ written = <<>>
    /\ stdout = <<>>
    /\ stderr = <<>>

Init ==
    /\ InitRun
    /\ f_in = NoCall
    /\ f_out = <<>>

(***************************************************************************)
(* main, one action per step.                                              *)
(***************************************************************************)
\* print(..., file=sys.stderr) under `if not args.quiet`
say(lines) == IF args.quiet THEN stderr ELSE stderr \o lines

\* [p for p in input_paths if not p.exists()]
RECURSIVE missing_of(_, _)
missing_of(F, paths) ==
    IF paths = <<>> THEN <<>>
    ELSE (IF ~exists(F, Head(paths)) THEN << Head(paths) >> ELSE <<>>)
         \o missing_of(F, Tail(paths))

RECURSIVE not_found_lines(_)
not_found_lines(paths) ==
    IF paths = <<>> THEN <<>>
    ELSE << [ msg |-> "Error: Input file not found: ", arg |-> Head(paths) ] >>
         \o not_found_lines(Tail(paths))

\* sys.exit(status)
exit(status) ==
    /\ exit_code' = status
    /\ pc' = "done"

\* input_paths = expand_paths(args.input)
Expand ==
    /\ pc = "start"
    /\ input_paths' = expand_paths(fs, args.input)
    /\ pc' = "validate"
    /\ UNCHANGED << args, fs, idx, base_path, output_path, success, model,
                    exit_code, loads, calls, written, stdout, stderr, fs0,
                    f_in, f_out >>

\* if not input_paths: ... sys.exit(1)
NoMatches ==
    /\ pc = "validate"
    /\ input_paths = <<>>
    /\ stderr' = say(<< [ msg |-> "Error: No matching files found", arg |-> <<>> ] >>)
    /\ exit(1)
    /\ UNCHANGED << args, fs, input_paths, idx, base_path, output_path, success,
                    model, loads, calls, written, stdout, fs0, f_in, f_out >>

\* if missing: ... sys.exit(1)
MissingInputs ==
    /\ pc = "validate"
    /\ input_paths # <<>>
    /\ LET missing == missing_of(fs, input_paths)
       IN  /\ missing # <<>>
           /\ stderr' = say(not_found_lines(missing))
    /\ exit(1)
    /\ UNCHANGED << args, fs, input_paths, idx, base_path, output_path, success,
                    model, loads, calls, written, stdout, fs0, f_in, f_out >>

\* if len(input_paths) > 1 and args.output and not Path(args.output).is_dir()
output_not_directory ==
    /\ Len(input_paths) > 1
    /\ truthy(args.output)
    /\ ~is_dir(fs, args.output.path)

OutputNotDirectory ==
    /\ pc = "validate"
    /\ input_paths # <<>>
    /\ missing_of(fs, input_paths) = <<>>
    /\ output_not_directory
    /\ stderr' = say(<< [ msg |-> "Error: Output must be a directory when processing multiple files",
                          arg |-> <<>> ] >>)
    /\ exit(1)
    /\ UNCHANGED << args, fs, input_paths, idx, base_path, output_path, success,
                    model, loads, calls, written, stdout, fs0, f_in, f_out >>

\* Mutant: the existence check of the inputs is skipped.
validated_ignoring_missing ==
    /\ pc = "validate"
    /\ input_paths # <<>>
    /\ ~output_not_directory

\* The three validation steps are behind: main goes on to load the model.
validated ==
    /\ pc = "validate"
    /\ input_paths # <<>>
    /\ missing_of(fs, input_paths) = <<>>
    /\ ~output_not_directory

\* The notice printed before from_pretrained when the model is not cached.
download_notice(cached) ==
    IF cached THEN stderr
    ELSE say(<< [ msg |-> "Model not found locally. Downloading ", arg |-> MODEL_ID ] >>)

\* model = from_pretrained(MODEL_ID); success = True; the loop begins
LoadModel ==
    /\ validated
    /\ \E cached \in BOOLEAN : stderr' = download_notice(cached)
    /\ \E h \in Handles : model' = h
    /\ loads' = loads + 1
    /\ success' = TRUE
    /\ idx' = 1
    /\ pc' = "loop"
    /\ UNCHANGED << args, fs, input_paths, base_path, output_path, exit_code,
                    calls, written, stdout, fs0, f_in, f_out >>

\* from_pretrained raises: the exception is not caught, and the interpreter
\* writes its traceback to sys.stderr, quiet or not, and exits with status 1.
LoadModelRaises ==
    /\ validated
    /\ \E cached \in BOOLEAN :
         stderr' = download_notice(cached)
                   \o << [ msg |-> "Traceback (most recent call last): ",
                           arg |-> << "from_pretrained" >> ] >>
    /\ loads' = loads + 1
    /\ exit(1)
    /\ UNCHANGED << args, fs, input_paths, idx, base_path, output_path, success,
                    model, calls, written, stdout, fs0, f_in, f_out >>

\* Mutant: the model is loaded again for every file.
GetOutputPath_reloading ==
    /\ pc = "loop"
    /\ idx <= Len(input_paths)
    /\ \E h \in Handles : model' = h
    /\ loads' = loads + 1
    /\ base_path' = output_candidate(fs, input_paths[idx], args.output, args.format)
    /\ output_path' = get_unique_output_path(fs, base_path')
    /\ pc' = "transcribe"
    /\ UNCHANGED << args, fs, input_paths, idx, success, exit_code,
                    calls, written, stdout, stderr, fs0, f_in, f_out >>

\* output_path = get_output_path(input_path, args.output, args.format): the
\* candidate, then get_unique_output_path on it
GetOutputPath ==
    /\ pc = "loop"
    /\ idx <= Len(input_paths)
    /\ base_path' = output_candidate(fs, input_paths[idx], args.output, args.format)
    /\ output_path' = get_unique_output_path(fs, base_path')
    /\ pc' = "transcribe"
    /\ UNCHANGED << args, fs, input_paths, idx, success, model, exit_code, loads,
                    calls, written, stdout, stderr, fs0, f_in, f_out >>

processing_line(input_path) ==
    << [ msg |-> "Processing ", arg |-> name(input_path) ] >>

\* Mutant: the output path is printed only when not quiet.
TranscribeOk_quiet_silent ==
    /\ pc = "transcribe"
    /\ \E result \in Results :
         fs' = [ q \in (DOMAIN fs) \cup { resolve(output_path) } |->
                   IF q = resolve(output_path)
                   THEN format_output(result, args.format)
                   ELSE fs[q] ]
    /\ stderr' = say(processing_line(input_paths[idx]))
    /\ calls' = Append(calls, [ path |-> input_paths[idx], model |-> model, ok |-> TRUE ])
    /\ written' = Append(written, [ path |-> output_path,
                                    existed |-> exists(fs, output_path) ])
    /\ stdout' = IF args.quiet THEN stdout ELSE Append(stdout, output_path)
    /\ idx' = idx + 1
    /\ pc' = "loop"
    /\ UNCHANGED << args, input_paths, base_path, output_path, success, model,
                    exit_code, loads, fs0, f_in, f_out >>

\* Mutant: `success = transcribe(...)`, a success overwrites the flag.
TranscribeOk_resetting ==
    /\ pc = "transcribe"
    /\ \E result \in Results :
         fs' = [ q \in (DOMAIN fs) \cup { resolve(output_path) } |->
                   IF q = resolve(output_path)
                   THEN format_output(result, args.format)
                   ELSE fs[q] ]
    /\ stderr' = say(processing_line(input_paths[idx]))
    /\ calls' = Append(calls, [ path |-> input_paths[idx], model |-> model, ok |-> TRUE ])
    /\ written' = Append(written, [ path |-> output_path,
                                    existed |-> exists(fs, output_path) ])
    /\ stdout' = Append(stdout, output_path)
    /\ success' = TRUE
    /\ idx' = idx + 1
    /\ pc' = "loop"
    /\ UNCHANGED << args, input_paths, base_path, output_path, model,
                    exit_code, loads, fs0, f_in, f_out >>

\* transcribe(...) returns True: the collaborator returned `result`, the
\* formatted transcript is written and its path printed.
TranscribeOk ==
    /\ pc = "transcribe"
    /\ \E result \in Results :
         fs' = [ q \in (DOMAIN fs) \cup { resolve(output_path) } |->
                   IF q = resolve(output_path)
                   THEN format_output(result, args.format)
                   ELSE fs[q] ]
    /\ stderr' = say(processing_line(input_paths[idx]))
    /\ calls' = Append(calls, [ path |-> input_paths[idx], model |-> model, ok |-> TRUE ])
    /\ written' = Append(written, [ path |-> output_path,
                                    existed |-> exists(fs, output_path) ])
    /\ stdout' = Append(stdout, output_path)
    /\ idx' = idx + 1
    /\ pc' = "loop"
    /\ UNCHANGED << args, input_paths, base_path, output_path, success, model,
                    exit_code, loads, fs0, f_in, f_out >>

\* Mutant: the output file is created before the collaborator is called and
\* is left behind, empty, when the call fails.
TranscribeRaises_reserving ==
    /\ pc = "transcribe"
    /\ fs' = [ q \in (DOMAIN fs) \cup { resolve(output_path) } |->
                 IF q = resolve(output_path) THEN <<>> ELSE fs[q] ]
    /\ stderr' = say(processing_line(input_paths[idx])
                     \o << [ msg |-> "Error: Transcription failed for ",
                             arg |-> name(input_paths[idx]) ] >>)
    /\ calls' = Append(calls, [ path |-> input_paths[idx], model |-> model, ok |-> FALSE ])
    /\ success' = FALSE
    /\ idx' = idx + 1
    /\ pc' = "loop"
    /\ UNCHANGED << args, input_paths, base_path, output_path, model,
                    exit_code, loads, written, stdout, fs0, f_in, f_out >>

\* Mutant: the exception of the collaborator is not caught and ends the run.
TranscribeRaises_aborting ==
    /\ pc = "transcribe"
    /\ stderr' = say(processing_line(input_paths[idx]))
    /\ calls' = Append(calls, [ path |-> input_paths[idx], model |-> model, ok |-> FALSE ])
    /\ success' = FALSE
    /\ exit(1)
    /\ UNCHANGED << args, fs, input_paths, idx, base_path, output_path, model,
                    loads, written, stdout, fs0, f_in, f_out >>

\* transcribe(...) returns False: the collaborator raised, main clears success.
TranscribeRaises ==
    /\ pc = "transcribe"
    /\ stderr' = say(processing_line(input_paths[idx])
                     \o << [ msg |-> "Error: Transcription failed for ",
                             arg |-> name(input_paths[idx]) ] >>)
    /\ calls' = Append(calls, [ path |-> input_paths[idx], model |-> model, ok |-> FALSE ])
    /\ success' = FALSE
    /\ idx' = idx + 1
    /\ pc' = "loop"
    /\ UNCHANGED << args, fs, input_paths, base_path, output_path, model,
                    exit_code, loads, written, stdout, fs0, f_in, f_out >>

\* Mutant: the loop waits for one input more than there are.
Exit_one_more ==
    /\ pc = "loop"
    /\ idx > Len(input_paths) + 1
    /\ exit(IF success THEN 0 ELSE 1)
    /\ UNCHANGED << args, fs, input_paths, idx, base_path, output_path, success,
                    model, loads, calls, written, stdout, stderr, fs0, f_in, f_out >>

\* sys.exit(0 if success else 1)
Exit ==
    /\ pc = "loop"
    /\ idx > Len(input_paths)
    /\ exit(IF success THEN 0 ELSE 1)
    /\ UNCHANGED << args, fs, input_paths, idx, base_path, output_path, success,
                    model, loads, calls, written, stdout, stderr, fs0, f_in, f_out >>

Next ==
    \/ Expand
    \/ NoMatches
    \/ MissingInputs
    \/ OutputNotDirectory
    \/ LoadModel
    \/ LoadModelRaises
    \/ GetOutputPath
    \/ TranscribeOk
    \/ TranscribeRaises
    \/ Exit

Spec == Init /\ [][Next]_vars

\* main runs on: every call returns or raises, so a step that can be taken is
\* taken.
SpecFair == Spec /\ WF_vars(Next)

(***************************************************************************)
(* The formatter on its own: format_output applied to bounded results.     *)
(***************************************************************************)
\* Sample times in ticks: 0 s, 1.5 s, 3 s, 1 h 2 min 5.375 s, 100 h 0.125 s.
SampleTimes ==
    << 0,
       (3 * TicksPerSecond) \div 2,
       3 * TicksPerSecond,
       3725 * TicksPerSecond + (3 * TicksPerSecond) \div 8,
       360000 * TicksPerSecond + TicksPerSecond \div 8 >>

SampleSentences ==
    { [ text |-> t, start |-> SampleTimes[k], end |-> SampleTimes[k + 1] ] :
        t \in { Hello.text, World.text }, k \in 1..(Len(SampleTimes) - 1) }

RECURSIVE texts_of(_)
texts_of(sentences) ==
    IF sentences = <<>> THEN <<>>
    ELSE << Head(sentences).text >> \o texts_of(Tail(sentences))

SampleResults ==
    { [ text |-> join(<< " " >>, texts_of(ss)), sentences |-> ss ] :
        ss \in SeqsUpTo(SampleSentences, MaxSentences) }

InitFormat ==
    /\ args = [ input |-> << << S_a_mp3 >> >>, output |-> NoOutput,
                format |-> "txt", quiet |-> FALSE ]
    /\ fs = << >>
    /\ fs0 = fs
    /\ pc = "idle"
    /\ input_paths = <<>>
    /\ idx = 0
    /\ base_path = <<>>
    /\ output_path = <<>>
    /\ success = TRUE
    /\ model = "none"
    /\ exit_code = -1
    /\ loads = 0
    /\ calls = <<>>
    /\ written = <<>>
    /\ stdout = <<>>
    /\ stderr = <<>>
    /\ f_in \in [ result : SampleResults, fmt : Formats ]
    /\ f_out = <<>>

\* content = format_output(result, fmt)
FormatOutput ==
    /\ f_out = <<>>
    /\ f_out' = << format_output(f_in.result, f_in.fmt) >>
    /\ UNCHANGED << f_in, run_vars >>

NextFormat == FormatOutput

SpecFormat == InitFormat /\ [][NextFormat]_vars

(***************************************************************************)
(* format_timestamp on its own, applied to times of whole milliseconds.    *)
(***************************************************************************)
\* The times 0 s .. 1.1 s, in milliseconds.
MaxMillis == 1100

\* 1 h 2 min 5.432 s and 100 h 0.125 s, in milliseconds.
SampleMillis == (0..MaxMillis) \cup { 3725432, 360000125 }

InitTimestamp ==
    /\ args = [ input |-> << << S_a_mp3 >> >>, output |-> NoOutput,
                format |-> "srt", quiet |-> FALSE ]
    /\ fs = << >>
    /\ fs0 = fs
    /\ pc = "idle"
    /\ input_paths = <<>>
    /\ idx = 0
    /\ base_path = <<>>
    /\ output_path = <<>>
    /\ success = TRUE
    /\ model = "none"
    /\ exit_code = -1
    /\ loads = 0
    /\ calls = <<>>
    /\ written = <<>>
    /\ stdout = <<>>
    /\ stderr = <<>>
    /\ f_in \in [ millis : SampleMillis, fmt : { "srt", "vtt" } ]
    /\ f_out = <<>>

\* format_timestamp(sentence.start, fmt), sentence.start being the float that
\* stands for the time
FormatTimestamp ==
    /\ f_out = <<>>
    /\ f_out' = << format_timestamp_float(float_of_millis(f_in.millis), f_in.fmt) >>
    /\ UNCHANGED << f_in, run_vars >>

NextTimestamp == FormatTimestamp

SpecTimestamp == InitTimestamp /\ [][NextTimestamp]_vars

(***************************************************************************)
(* Properties of a run.                                                    *)
(***************************************************************************)
\* The run has an input error: nothing resolved, a resolved input is missing,
\* or several inputs with an output override that is no existing directory.
InputError ==
    \/ input_paths = <<>>
    \/ \E k \in 1..Len(input_paths) : ~exists(fs0, input_paths[k])
    \/ /\ Len(input_paths) > 1
       /\ args.output.given
       /\ ~is_dir(fs0, args.output.path)

\* The positions of the transcription calls that succeeded.
OkCalls == { k \in 1..Len(calls) : calls[k].ok }

Acquired == model # "none"

\* C1: once the model is acquired, the transcription calls made so far are the
\* resolved inputs in resolution order, one call each, and a run that has
\* ended has called every one of them, whichever calls failed.
C1_EveryInputAttempted ==
    /\ Len(calls) <= Len(input_paths)
    /\ \A k \in 1..Len(calls) : calls[k].path = input_paths[k]
    /\ (pc = "loop" /\ Acquired) => Len(calls) = idx - 1
    /\ (pc = "done" /\ Acquired) => Len(calls) = Len(input_paths)

\* Three inputs, the second fails: the first and the third are written.
C1_Witness ==
    /\ pc = "done"
    /\ Len(calls) = 3
    /\ OkCalls = { 1, 3 }
    /\ Len(written) = 2
    /\ exit_code = 1

\* C2: a run that has ended has status 0 exactly when validation passed and
\* every resolved input was transcribed successfully, and status 1 otherwise:
\* on an input error and whenever some transcription failed.
C2_ExitStatus ==
    pc = "done" =>
        /\ exit_code \in { 0, 1 }
        /\ exit_code = 0 <=>
               /\ ~InputError
               /\ Len(calls) = Len(input_paths)
               /\ OkCalls = 1..Len(calls)
        /\ (InputError \/ OkCalls # 1..Len(calls)) => exit_code = 1

\* A failure followed by a success still ends in failure.
C2_Witness ==
    /\ pc = "done"
    /\ exit_code = 1
    /\ Len(calls) = 2
    /\ OkCalls = { 2 }

\* C3: once the inputs are resolved, a run with an input error never acquires
\* the model, calls the collaborator or writes, and it ends with status 1.
C3_InputErrorsFailFast ==
    (pc # "start" /\ pc # "idle" /\ InputError) =>
        /\ loads = 0
        /\ model = "none"
        /\ calls = <<>>
        /\ written = <<>>
        /\ stdout = <<>>
        /\ fs = fs0
        /\ pc = "done" => exit_code = 1

\* Some resolved inputs exist and some are missing.
C3_Witness ==
    /\ pc = "done"
    /\ \E j, k \in 1..Len(input_paths) :
         exists(fs0, input_paths[j]) /\ ~exists(fs0, input_paths[k])
    /\ exit_code = 1

\* C4: no write targets a path that exists when it is written: not a file of
\* the initial filesystem, not a directory, not a file written earlier in the
\* run; the files that were there keep their contents.
C4_NoOverwrite ==
    /\ \A k \in 1..Len(written) :
         /\ ~written[k].existed
         /\ resolve(written[k].path) \notin (DOMAIN fs0) \cup Dirs
         /\ \A j \in 1..(k - 1) : resolve(written[j].path) # resolve(written[k].path)
    /\ \A q \in DOMAIN fs0 : q \in DOMAIN fs /\ fs[q] = fs0[q]

\* a.* and a.mp3 as txt: a.mp3, a.txt, a.mp3 all have the candidate a.txt, which
\* is the second input itself; the third write goes to a-3.txt.
C4_Witness ==
    /\ pc = "done"
    /\ args.format = "txt"
    /\ Len(written) = 3
    /\ input_paths[1] = input_paths[3]
    /\ input_paths[2] = Cwd \o << S_a_txt >>
    /\ written[3].path = Cwd \o << << "a", "-", "3", ".", "t", "x", "t" >> >>

\* <stem>-<n><ext> in the parent directory of `base`.
Numbered(base, n) ==
    Append(parent(base), stem(base) \o << "-" >> \o str(n) \o suffix(base))

\* The resolved paths written so far.
WrittenPaths == { resolve(written[k].path) : k \in 1..Len(written) }

\* C5: when get_unique_output_path has returned, its result does not exist; it
\* is the candidate when the candidate does not exist, and otherwise
\* <stem>-<n><ext> beside the candidate for the least n >= 1 that does not
\* exist; the call itself creates nothing (the files are the initial ones and
\* the ones written).
C5_Uniquify ==
    pc = "transcribe" =>
        /\ ~exists(fs, output_path)
        /\ ~exists(fs, base_path) => output_path = base_path
        /\ exists(fs, base_path) =>
               \E n \in 1..(Cardinality(DOMAIN fs) + 1) :
                   /\ output_path = Numbered(base_path, n)
                   /\ \A m \in 1..(n - 1) : exists(fs, Numbered(base_path, m))
        /\ DOMAIN fs = (DOMAIN fs0) \cup WrittenPaths

\* The collision law: <stem><ext> and <stem>-1<ext> exist, <stem>-2<ext> is returned.
C5_Witness ==
    /\ pc = "transcribe"
    /\ exists(fs, base_path)
    /\ exists(fs, Numbered(base_path, 1))
    /\ output_path = Numbered(base_path, 2)
    /\ name(output_path) = << "a", "-", "2", ".", "s", "r", "t" >>

\* C6: the files written, the files new on disk and the lines on stdout are as
\* many as the successful transcriptions, and the k-th line is the path of the
\* k-th file written, which holds a transcript; quiet or not.
C6_OneFileOneLinePerSuccess ==
    /\ Len(stdout) = Cardinality(OkCalls)
    /\ Len(written) = Cardinality(OkCalls)
    /\ Cardinality((DOMAIN fs) \ (DOMAIN fs0)) = Cardinality(OkCalls)
    /\ \A k \in 1..Len(stdout) :
         /\ stdout[k] = written[k].path
         /\ resolve(stdout[k]) \in (DOMAIN fs) \ (DOMAIN fs0)
         /\ fs[resolve(stdout[k])] \in { format_output(r, args.format) : r \in Results }

\* A quiet run of three inputs whose second fails.
C6_Witness ==
    /\ pc = "done"
    /\ args.quiet
    /\ Len(calls) = 3
    /\ OkCalls = { 1, 3 }
    /\ Len(stdout) = 2
    /\ stderr = <<>>

\* C7: from_pretrained is called at most once, never before validation has
\* passed, always before the first transcription call and not again in the
\* loop; every transcription call uses the handle it returned.
C7_ModelAcquiredOnce ==
    /\ loads <= 1
    /\ pc \in { "start", "validate" } => (loads = 0 /\ calls = <<>>)
    /\ loads = 1 => ~InputError
    /\ (calls # <<>> \/ pc \in { "loop", "transcribe" }) =>
           (loads = 1 /\ model \in Handles)
    /\ \A k \in 1..Len(calls) : calls[k].model = model

\* A run of four inputs with one acquisition.
C7_Witness ==
    /\ pc = "done"
    /\ loads = 1
    /\ Len(calls) = 4

\* `paths` is the concatenation, in pattern order, of the contributions of
\* `patterns`: one absolute path for a literal, the matches in strictly
\* increasing string order for a glob.
RECURSIVE ExpandsTo(_, _)
ExpandsTo(paths, patterns) ==
    IF patterns = <<>> THEN paths = <<>>
    ELSE LET p == Head(patterns)
             matches == { resolve(q) : q \in glob(fs0, p) }
             n == IF has_magic(p) THEN Cardinality(matches) ELSE 1
         IN  /\ Len(paths) >= n
             /\ LET c == SubSeq(paths, 1, n)
                IN  IF has_magic(p)
                    THEN /\ { c[k] : k \in 1..n } = matches
                         /\ \A j, k \in 1..n :
                              j < k => StrLess(path_str(c[j]), path_str(c[k]))
                    ELSE /\ is_absolute(c[1])
                         /\ c[1] = (IF is_absolute(p) THEN p ELSE Cwd \o p)
             /\ ExpandsTo(SubSeq(paths, n + 1, Len(paths)), Tail(patterns))

\* C9: when expand_paths has returned, input_paths is the concatenation of the
\* patterns' contributions in the order given, with no de-duplication or
\* re-sorting across patterns.
C9_Expand ==
    pc = "validate" => ExpandsTo(input_paths, args.input)

\* *.mp3 and a.*: a.mp3 is matched by both and appears twice, and b.mp3 stays
\* before the second a.mp3.
C9_Witness ==
    /\ pc = "validate"
    /\ args.input = << << << "*", ".", "m", "p", "3" >> >>, << << "a", ".", "*" >> >> >>
    /\ input_paths = << Cwd \o << S_a_mp3 >>, Cwd \o << S_b_mp3 >>,
                        Cwd \o << S_a_mp3 >>, Cwd \o << S_a_txt >> >>

\* C10: the candidate of get_output_path is the input's sibling <stem><ext>
\* without an override (none, or the empty string), <dir>/<stem><ext> for an
\* override that is an existing directory, the override itself otherwise; a
\* candidate that does not exist is returned unchanged.
C10_ResolveOutput ==
    pc = "transcribe" =>
        LET inp == input_paths[idx]
            file == stem(inp) \o EXTENSION_MAP[args.format]
            override == args.output.given /\ args.output.path # <<>>
        IN  /\ ~override => base_path = Append(parent(inp), file)
            /\ (override /\ is_dir(fs, args.output.path)) =>
                   base_path = Append(args.output.path, file)
            /\ (override /\ ~is_dir(fs, args.output.path)) =>
                   base_path = args.output.path
            /\ ~exists(fs, base_path) => output_path = base_path

\* -o a.txt with -f srt: the override is used as it is.
C10_Witness ==
    /\ pc = "transcribe"
    /\ args.format = "srt"
    /\ args.output = [ given |-> TRUE, path |-> << S_a_txt >> ]
    /\ base_path = << S_a_txt >>
    /\ output_path = << S_a_txt >>

\* The inputs whose transcription succeeded so far, in order.
RECURSIVE ok_paths(_)
ok_paths(cs) ==
    IF cs = <<>> THEN <<>>
    ELSE (IF Head(cs).ok THEN << Head(cs).path >> ELSE <<>>) \o ok_paths(Tail(cs))

\* The output targets of a batch in which every input of `inputs` is
\* transcribed with success, started on the files F.
RECURSIVE TargetsOf(_, _)
TargetsOf(F, inputs) ==
    IF inputs = <<>> THEN <<>>
    ELSE LET target == get_output_path(F, Head(inputs), args.output, args.format)
         IN  << target >>
             \o TargetsOf([ q \in (DOMAIN F) \cup { resolve(target) } |-> OldContent ],
                          Tail(inputs))

\* C11: a failed transcription leaves no file behind: the files are the initial
\* ones and the ones written, the targets written are those of the batch made
\* of the successful inputs alone, and the target just computed is the one the
\* input gets in the batch of the earlier successful inputs and itself.
C11_FailureLeavesNoTrace ==
    /\ DOMAIN fs = (DOMAIN fs0) \cup WrittenPaths
    /\ LET targets == TargetsOf(fs0, ok_paths(calls))
       IN  /\ Len(written) = Len(targets)
           /\ \A k \in 1..Len(written) : written[k].path = targets[k]
    /\ pc = "transcribe" =>
           LET targets == TargetsOf(fs0, Append(ok_paths(calls), input_paths[idx]))
           IN  output_path = targets[Len(targets)]

\* a.* as srt: a.mp3 fails, and a.txt, which has the same stem, is written to
\* a.srt, the target a.mp3 had.
C11_Witness ==
    /\ pc = "done"
    /\ args.format = "srt"
    /\ Len(calls) = 2
    /\ OkCalls = { 2 }
    /\ stem(calls[1].path) = stem(calls[2].path)
    /\ written = << [ path |-> Cwd \o << << "a", ".", "s", "r", "t" >> >>, existed |-> FALSE ] >>

\* What a run that has ended leaves behind, from what does not depend on
\* args.quiet: the initial files, the inputs, the override, the format and
\* the outcomes of the collaborator's calls.
results_without_quiet ==
    LET targets == TargetsOf(fs0, ok_paths(calls))
    IN  /\ stdout = targets
        /\ Len(written) = Len(targets)
        /\ \A k \in 1..Len(targets) : written[k].path = targets[k]
        /\ DOMAIN fs = (DOMAIN fs0) \cup { resolve(targets[k]) : k \in 1..Len(targets) }
        /\ \A q \in DOMAIN fs0 : fs[q] = fs0[q]
        /\ \A q \in (DOMAIN fs) \ (DOMAIN fs0) :
             fs[q] \in { format_output(r, args.format) : r \in Results }
        /\ exit_code = (IF /\ expand_paths(fs0, args.input) # <<>>
                           /\ missing_of(fs0, expand_paths(fs0, args.input)) = <<>>
                           /\ ~output_not_directory
                           /\ loads = 1 /\ model # "none"
                           /\ OkCalls = 1..Len(calls)
                        THEN 0 ELSE 1)

\* The files, the lines on stdout and the exit status do not depend on quiet.
C14_ResultsWithoutQuiet == pc = "done" => results_without_quiet

\* C14: the files written, the lines on stdout and the exit status of a run are
\* determined by what the quiet and the non-quiet run share, and the quiet run
\* writes nothing at all to stderr.
C14_QuietNonInterference ==
    /\ pc = "done" => results_without_quiet
    /\ args.quiet => stderr = <<>>

\* A quiet run whose model acquisition raised has the traceback on stderr.
C14_QuietTraceback ==
    /\ pc = "done"
    /\ args.quiet
    /\ loads = 1
    /\ model = "none"
    /\ exit_code = 1
    /\ stderr # <<>>

\* The uniquify search has stopped at the candidate or at a number that is at
\* most the number of files.
SearchStopped ==
    \/ output_path = base_path
    \/ \E n \in 1..Cardinality(DOMAIN fs) : output_path = Numbered(base_path, n)

\* The run has ended with an exit status; a run that reached the loop made one
\* iteration per resolved input.
Terminated ==
    /\ pc = "done"
    /\ exit_code \in { 0, 1 }
    /\ model # "none" => (Len(calls) = Len(input_paths) /\ idx = Len(input_paths) + 1)

\* C15: every uniquify search stops at a finite n, the loop never goes past
\* the resolved inputs, and every run eventually ends with an exit status,
\* after one iteration per resolved input when it reached the loop.
C15_Terminates ==
    /\ [](pc = "transcribe" => SearchStopped)
    /\ [](idx <= Len(input_paths) + 1)
    /\ <>Terminated

\* A run of three inputs has ended, one of its searches having stopped at 1.
C15_Witness ==
    /\ Terminated
    /\ Len(calls) = 3
    /\ \E k \in 1..Len(written) : \E c \in 1..Len(calls) :
         written[k].path = Numbered(output_candidate(fs0, calls[c].path, args.output, args.format), 1)

(***************************************************************************)
(* Properties of the formatter.                                            *)
(***************************************************************************)
\* Four newline-terminated lines per sentence: counter, range, text, empty.
RECURSIVE srt_blocks(_, _)
srt_blocks(sentences, i) ==
    IF sentences = <<>> THEN <<>>
    ELSE LET s == Head(sentences)
         IN  str(i) \o << NL >>
             \o format_timestamp(s.start, "srt") \o << " ", "-", "-", ">", " " >>
             \o format_timestamp(s.end, "srt") \o << NL >>
             \o s.text \o << NL >>
             \o << NL >>
             \o srt_blocks(Tail(sentences), i + 1)

\* C8 as stated: the srt output is the blocks, each of four newline-terminated
\* lines, so that it ends with a blank line.
C8_SrtBlocksTerminated ==
    (f_out # <<>> /\ f_in.fmt = "srt") =>
        f_out[1] = srt_blocks(f_in.result.sentences, 1)

\* C8 amended: the lines are joined with newline separators, so the output is
\* the blocks without the final newline: a blank line follows every block but
\* the last, the output ends with the last text and one newline, and it is
\* empty for no sentence.
C8_SrtBlocksJoined ==
    (f_out # <<>> /\ f_in.fmt = "srt") =>
        LET blocks == srt_blocks(f_in.result.sentences, 1)
        IN  f_out[1] = (IF blocks = <<>> THEN <<>>
                        ELSE SubSeq(blocks, 1, Len(blocks) - 1))

\* The two-sentence example.
C8_Witness ==
    /\ f_in = [ result |-> HelloWorld, fmt |-> "srt" ]
    /\ f_out = << << "1", NL, "0", "0", ":", "0", "0", ":", "0", "0", ",", "0", "0", "0", " ", "-", "-", ">", " ", "0", "0", ":", "0", "0", ":", "0", "1", ",", "5", "0", "0", NL, "H", "e", "l", "l", "o", NL, NL, "2", NL, "0", "0", ":", "0", "0", ":", "0", "1", ",", "5", "0", "0", " ", "-", "-", ">", " ", "0", "0", ":", "0", "0", ":", "0", "3", ",", "0", "0", "0", NL, "W", "o", "r", "l", "d", NL >> >>


\* An srt timestamp with a period in place of the comma before the milliseconds.
with_period(timestamp) ==
    [ k \in 1..Len(timestamp) |->
        IF k = Len(timestamp) - 3 /\ timestamp[k] = "," THEN "." ELSE timestamp[k] ]

\* The blocks of srt_blocks with the period in their timestamps.
RECURSIVE vtt_blocks(_, _)
vtt_blocks(sentences, i) ==
    IF sentences = <<>> THEN <<>>
    ELSE LET s == Head(sentences)
         IN  str(i) \o << NL >>
             \o with_period(format_timestamp(s.start, "srt")) \o << " ", "-", "-", ">", " " >>
             \o with_period(format_timestamp(s.end, "srt")) \o << NL >>
             \o s.text \o << NL >>
             \o << NL >>
             \o vtt_blocks(Tail(sentences), i + 1)

\* What the srt output has for the sentences, with periods: the blocks joined
\* as C8_SrtBlocksJoined states.
vtt_body(sentences) ==
    LET blocks == vtt_blocks(sentences, 1)
    IN  IF blocks = <<>> THEN <<>> ELSE SubSeq(blocks, 1, Len(blocks) - 1)

\* C12 as stated: for every result, zero sentences included, the vtt output is
\* the line WEBVTT, a blank line, then what srt has for the result with
\* periods before the milliseconds.
C12_VttHeaderBlankLineAlways ==
    (f_out # <<>> /\ f_in.fmt = "vtt") =>
        f_out[1] = << "W", "E", "B", "V", "T", "T", NL >> \o << NL >> \o vtt_body(f_in.result.sentences)

\* C12 amended: for a result with at least one sentence the vtt output is the
\* line WEBVTT, a blank line, then what srt has for the result with periods
\* before the milliseconds; for a result with no sentence it is the line
\* WEBVTT alone, with no blank line after it.
C12_VttHeaderThenSrtBlocks ==
    (f_out # <<>> /\ f_in.fmt = "vtt") =>
        f_out[1] = (IF f_in.result.sentences = <<>> THEN << "W", "E", "B", "V", "T", "T", NL >>
                    ELSE << "W", "E", "B", "V", "T", "T", NL >> \o << NL >> \o vtt_body(f_in.result.sentences))

\* The two-sentence example as vtt.
C12_Witness ==
    /\ f_in = [ result |-> HelloWorld, fmt |-> "vtt" ]
    /\ f_out = << << "W", "E", "B", "V", "T", "T", NL, NL, "1", NL, "0", "0", ":", "0", "0", ":", "0", "0", ".", "0", "0", "0", " ", "-", "-", ">", " ", "0", "0", ":", "0", "0", ":", "0", "1", ".", "5", "0", "0", NL, "H", "e", "l", "l", "o", NL, NL, "2", NL, "0", "0", ":", "0", "0", ":", "0", "1", ".", "5", "0", "0", " ", "-", "-", ">", " ", "0", "0", ":", "0", "0", ":", "0", "3", ".", "0", "0", "0", NL, "W", "o", "r", "l", "d", NL >> >>

\* The result without sentences as vtt.
C12_NoSentence ==
    /\ f_in.fmt = "vtt"
    /\ f_in.result.sentences = <<>>
    /\ f_out = << << "W", "E", "B", "V", "T", "T", NL >> >>


\* The rendering of t milliseconds from its exact fields.
exact_timestamp(t, fmt) ==
    LET hours == t \div 3600000
        minutes == (t \div 60000) % 60
        secs == (t \div 1000) % 60
        millis == t % 1000
    IN  fmt2(hours) \o << ":" >> \o fmt2(minutes) \o << ":" >> \o fmt2(secs)
            \o (IF fmt = "srt" THEN << "," >> ELSE << "." >>) \o fmt3(millis)

\* C13: for a time of t whole milliseconds format_timestamp renders the fields
\* hours, minutes in 0..59, seconds in 0..59 and milliseconds in 0..999 that
\* add up to t, as HH:MM:SS,mmm for srt and HH:MM:SS.mmm for vtt, with more
\* than two hour digits from 100 hours on.
C13_FieldsAddUp ==
    f_out # <<>> => f_out[1] = exact_timestamp(f_in.millis, f_in.fmt)

\* 1.001 s is rendered with 000 milliseconds.
C13_LostMillisecond ==
    /\ f_in = [ millis |-> 1001, fmt |-> "srt" ]
    /\ f_out = << << "0", "0", ":", "0", "0", ":", "0", "1", ",", "0", "0", "0" >> >>

\* 100 h 0.125 s, a time its float holds exactly, has three hour digits.
C13_HundredHours ==
    /\ f_in = [ millis |-> 360000125, fmt |-> "vtt" ]
    /\ f_out = << << "1", "0", "0", ":", "0", "0", ":", "0", "0", ".", "1", "2", "5" >> >>

====
